---- MODULE Spec2Model ----
(***************************************************************************)
(* A model of the A2A summarization agent (app.py, summarizer.py,          *)
(* cfutils/cfgenai.py): the start-up sequence of main/create_a2a_server,   *)
(* the base URL resolver get_base_url, and the task executor               *)
(* SummarizationAgentExecutor.execute / cancel running on one event loop   *)
(* with the chain call offloaded to the loop's default thread pool.        *)
(*                                                                         *)
(* Python strings are sequences of atoms (an atom is a character, or a     *)
(* literal chunk that is never indexed); concatenation is \o.              *)
(***************************************************************************)
EXTENDS Naturals, Sequences, FiniteSets, TLC

VARIABLES
    environ,      \* os.environ: A2A_BASE_URL and VCAP_APPLICATION
    host,         \* main's host
    port,         \* main's port
    services,     \* what VCAP_SERVICES holds for the GenAI service
    boot,         \* position of main / create_a2a_server
    fatal,        \* the exception that ended start-up, "None" if none
    sdk,          \* whether the SDK's EventQueue.enqueue_event is a coroutine function
    base_url,     \* outcome of get_base_url: [exc, url]
    chains,       \* number of LLMChain instances created so far
    executor,     \* the SummarizationAgentExecutor: [made, summarization_chain]
    ctx,          \* per request: RequestContext given to execute
    pc,           \* per request: position of its execute coroutine
    st,           \* per request: locals of execute (task id, query, result, error)
    events,       \* per request: what its EventQueue received, in order
    call,         \* per request: the offloaded summarize_text call
    nextId,       \* source of fresh task identifiers (uuid4)
    cancels       \* return values of the cancel calls made so far

vars == <<environ, host, port, services, boot, fatal, sdk, base_url, chains, executor,
          ctx, pc, st, events, call, nextId, cancels>>

urlVars == <<environ, host, port, base_url>>
bootVars == <<services, boot, fatal, sdk, chains, executor>>
execVars == <<ctx, pc, st, events, call, nextId>>

(***************************************************************************)
(* Bounds of the model.                                                    *)
(***************************************************************************)
MaxRequests == 3
MaxWorkers == 2
MaxCancels == 1

Req == 1..MaxRequests

(***************************************************************************)
(* JSON texts and json.loads.  A text is the sequence of its lexical       *)
(* tokens; a token is [k, v] with k the kind and v the characters of a     *)
(* string or number literal.                                               *)
(***************************************************************************)
Tok(k) == [k |-> k, v |-> <<>>]
TStr(s) == [k |-> "string", v |-> s]
TNum(s) == [k |-> "number", v |-> s]
TBad(s) == [k |-> "bad", v |-> s]

KeyUris == <<"application_uris">>
KeyName == <<"name">>
Foo == <<"f", "o", "o", ".", "c", "o", "m">>
Bar == <<"b", "a", "r", ".", "c", "o", "m">>

\* A Python value read from JSON: t is the type, s the characters of a str or
\* the digits of a number, xs the elements of a list or the entries of a dict
\* (an entry has t = "entry", its key in s and its value in xs[1]).
Val(t, s, xs) == [t |-> t, s |-> s, xs |-> xs]
PyNone == Val("NoneType", <<>>, <<>>)

ParseOk(v, p) == [ok |-> TRUE, val |-> v, pos |-> p]
ParseFail == [ok |-> FALSE, val |-> PyNone, pos |-> 0]

RECURSIVE ParseValue(_, _), ParseElems(_, _, _), ParseMembers(_, _, _)
ParseValue(toks, i) ==
    IF i > Len(toks) THEN ParseFail
    ELSE LET tk == toks[i] IN
      CASE tk.k = "string" -> ParseOk(Val("str", tk.v, <<>>), i + 1)
        [] tk.k = "number" -> ParseOk(Val("int", tk.v, <<>>), i + 1)
        [] tk.k = "true"   -> ParseOk(Val("bool", <<"True">>, <<>>), i + 1)
        [] tk.k = "false"  -> ParseOk(Val("bool", <<"False">>, <<>>), i + 1)
        [] tk.k = "null"   -> ParseOk(PyNone, i + 1)
        [] tk.k = "["      ->
             IF i + 1 <= Len(toks) /\ toks[i + 1].k = "]"
             THEN ParseOk(Val("list", <<>>, <<>>), i + 2)
             ELSE ParseElems(toks, i + 1, <<>>)
        [] tk.k = "{"      ->
             IF i + 1 <= Len(toks) /\ toks[i + 1].k = "}"
             THEN ParseOk(Val("dict", <<>>, <<>>), i + 2)
             ELSE ParseMembers(toks, i + 1, <<>>)
        [] OTHER -> ParseFail

ParseElems(toks, i, acc) ==
    LET r == ParseValue(toks, i) IN
    IF ~r.ok \/ r.pos > Len(toks) THEN ParseFail
    ELSE IF toks[r.pos].k = "," THEN ParseElems(toks, r.pos + 1, Append(acc, r.val))
    ELSE IF toks[r.pos].k = "]"
         THEN ParseOk(Val("list", <<>>, Append(acc, r.val)), r.pos + 1)
    ELSE ParseFail

ParseMembers(toks, i, acc) ==
    IF i + 1 > Len(toks) \/ toks[i].k # "string" \/ toks[i + 1].k # ":" THEN ParseFail
    ELSE LET r == ParseValue(toks, i + 2) IN
      IF ~r.ok \/ r.pos > Len(toks) THEN ParseFail
      ELSE LET e == Val("entry", toks[i].v, <<r.val>>) IN
        IF toks[r.pos].k = "," THEN ParseMembers(toks, r.pos + 1, Append(acc, e))
        ELSE IF toks[r.pos].k = "}"
             THEN ParseOk(Val("dict", <<>>, Append(acc, e)), r.pos + 1)
        ELSE ParseFail

\* json.loads: [ok |-> FALSE] is JSONDecodeError (also for trailing tokens).
json_loads(toks) ==
    LET r == ParseValue(toks, 1) IN
    IF r.ok /\ r.pos = Len(toks) + 1 THEN r ELSE ParseFail

(***************************************************************************)
(* Python operations get_base_url applies to what json.loads returned.     *)
(***************************************************************************)
\* bool(v), as tested by `if uris:`
Truthy(v) ==
    CASE v.t = "NoneType" -> FALSE
      [] v.t = "bool"     -> v.s = <<"True">>
      [] v.t = "int"      -> v.s # <<"0">>
      [] v.t = "str"      -> v.s # <<>>
      [] v.t = "list"     -> v.xs # <<>>
      [] v.t = "dict"     -> v.xs # <<>>

\* d.get(key, default) on a dict; the last entry of a repeated key wins.
RECURSIVE DictLookup(_, _, _, _)
DictLookup(xs, key, i, default) ==
    IF i = 0 THEN default
    ELSE IF xs[i].s = key THEN xs[i].xs[1]
    ELSE DictLookup(xs, key, i - 1, default)

\* vcap_data.get("application_uris", []): only a dict has .get
dict_get(v, key, default) ==
    IF v.t = "dict"
    THEN [exc |-> "None", val |-> DictLookup(v.xs, key, Len(v.xs), default)]
    ELSE [exc |-> "AttributeError", val |-> PyNone]

\* uris[0] for a truthy uris: a list gives its first element, a str its first
\* character, a dict (whose keys are all strings) raises KeyError, and an int
\* or True is not subscriptable.
subscript0(v) ==
    CASE v.t = "list" -> [exc |-> "None", val |-> v.xs[1]]
      [] v.t = "str"  -> [exc |-> "None", val |-> Val("str", <<v.s[1]>>, <<>>)]
      [] v.t = "dict" -> [exc |-> "KeyError", val |-> PyNone]
      [] OTHER        -> [exc |-> "TypeError", val |-> PyNone]

\* format(v, "") inside an f-string, for the scalars a first URI can be
py_format(v) ==
    CASE v.t = "str"      -> v.s
      [] v.t = "int"      -> v.s
      [] v.t = "bool"     -> v.s
      [] v.t = "NoneType" -> <<"None">>

\* os.getenv(name): None when unset, else the (possibly empty) value
Unset == [set |-> FALSE, val |-> <<>>]
SetTo(x) == [set |-> TRUE, val |-> x]
\* `if os.getenv(name):` is true for a set, non-empty value
getenv_truthy(e) == e.set /\ e.val # <<>>

Returned(url) == [exc |-> "None", url |-> url]
Raised(exc) == [exc |-> exc, url |-> <<>>]
NotCalled == [exc |-> "NotCalled", url |-> <<>>]

\* f"http://{host}:{port}"
default_url(h, p) == <<"http://">> \o h \o <<":", ToString(p)>>

\* Priority 2 of get_base_url, entered with a truthy VCAP_APPLICATION:
\* "fall" stands for leaving the if-block without returning.
vcap_route(vcap_app) ==
    LET parsed == json_loads(vcap_app) IN
    IF ~parsed.ok THEN Raised("fall")                  \* JSONDecodeError, caught
    ELSE LET got == dict_get(parsed.val, KeyUris, Val("list", <<>>, <<>>)) IN
      IF got.exc # "None" THEN Raised(got.exc)         \* AttributeError, not caught
      ELSE IF ~Truthy(got.val) THEN Raised("fall")
      ELSE LET first == subscript0(got.val) IN
        IF first.exc = "KeyError" THEN Raised("fall")  \* caught
        ELSE IF first.exc # "None" THEN Raised(first.exc)
        ELSE Returned(<<"https://">> \o py_format(first.val))

get_base_url(env, h, p) ==
    IF getenv_truthy(env.A2A_BASE_URL) THEN Returned(env.A2A_BASE_URL.val)
    ELSE LET route == IF getenv_truthy(env.VCAP_APPLICATION)
                      THEN vcap_route(env.VCAP_APPLICATION.val)
                      ELSE Raised("fall")
         IN IF route.exc = "fall" THEN Returned(default_url(h, p)) ELSE route

(***************************************************************************)
(* Start-up: main -> create_a2a_server -> SummarizationAgentExecutor()     *)
(* -> create_summarization_chain -> CFGenAIService / list_models.          *)
(***************************************************************************)
\* What VCAP_SERVICES holds under the service name: whether the service is
\* bound, whether its credentials have an "endpoint" block, and which of the
\* block's keys are there.
ServiceConfigs ==
    { [found |-> FALSE, endpoint |-> FALSE, config_url |-> FALSE, api_base |-> FALSE],
      [found |-> TRUE,  endpoint |-> FALSE, config_url |-> FALSE, api_base |-> FALSE],
      [found |-> TRUE,  endpoint |-> TRUE,  config_url |-> FALSE, api_base |-> TRUE],
      [found |-> TRUE,  endpoint |-> TRUE,  config_url |-> TRUE,  api_base |-> FALSE],
      [found |-> TRUE,  endpoint |-> TRUE,  config_url |-> TRUE,  api_base |-> TRUE] }

\* What the config endpoint answers to list_models' GET: an HTTP error, or a
\* document with its advertisedModels.
ConfigResponses ==
    { [status |-> "error", models |-> <<>>],
      [status |-> "ok",    models |-> <<>>],
      [status |-> "ok",    models |-> <<"gpt-oss-120b">>] }

\* CFGenAIService.__init__: the service object, or ValueError when the
\* service is not bound; creds.get("endpoint", {}) makes the keys None when
\* there is no endpoint block.
CFGenAIService_init(svc) ==
    IF ~svc.found
    THEN [exc |-> "ValueError", config_url |-> FALSE, api_base |-> FALSE]
    ELSE [exc |-> "None",
          config_url |-> svc.endpoint /\ svc.config_url,
          api_base   |-> svc.endpoint /\ svc.api_base]

\* CFGenAIService.list_models
list_models(self, resp) ==
    IF ~self.config_url THEN [exc |-> "ValueError", models |-> <<>>]
    ELSE IF resp.status # "ok" THEN [exc |-> "HTTPError", models |-> <<>>]
    ELSE [exc |-> "None", models |-> resp.models]

\* A factory that builds a chain whatever the credential lookup found.
create_summarization_chain_lenient(svc, resp, built) ==
    [exc |-> "None", chain |-> built + 1]

\* create_summarization_chain: [exc, chain] where chain is the identity of
\* the LLMChain built (the count of chains built so far, plus one).
create_summarization_chain(svc, resp, built) ==
    LET chat_service == CFGenAIService_init(svc) IN
    IF chat_service.exc # "None" THEN [exc |-> chat_service.exc, chain |-> 0]
    ELSE LET models == list_models(chat_service, resp) IN
      IF models.exc # "None" THEN [exc |-> models.exc, chain |-> 0]
      ELSE IF ~chat_service.api_base THEN [exc |-> "TypeError", chain |-> 0]
      ELSE IF models.models = <<>> THEN [exc |-> "IndexError", chain |-> 0]
      ELSE [exc |-> "None", chain |-> built + 1]

NoExecutor == [made |-> FALSE, summarization_chain |-> 0]

\* create_a2a_server, first statement: base_url = get_base_url(host, port)
GetBaseUrlStep ==
    /\ boot = "main"
    /\ base_url' = get_base_url(environ, host, port)
    /\ boot' = IF base_url'.exc = "None" THEN "base_url" ELSE "crashed"
    /\ fatal' = base_url'.exc
    /\ UNCHANGED <<environ, host, port, services, sdk, chains, executor, cancels>>
    /\ UNCHANGED execVars

\* create_a2a_server, second statement: SummarizationAgentExecutor()
CreateExecutor ==
    /\ boot = "base_url"
    /\ \E resp \in ConfigResponses :
         LET made == create_summarization_chain(services, resp, chains) IN
         IF made.exc = "None"
         THEN /\ chains' = made.chain
              /\ executor' = [made |-> TRUE, summarization_chain |-> made.chain]
              /\ boot' = "executor"
              /\ UNCHANGED fatal
         ELSE /\ boot' = "crashed"
              /\ fatal' = made.exc
              /\ UNCHANGED <<chains, executor>>
    /\ UNCHANGED <<services, sdk, cancels>>
    /\ UNCHANGED urlVars
    /\ UNCHANGED execVars

\* The rest of create_a2a_server and uvicorn.run: handler, card, server.
StartServer ==
    /\ boot = "executor"
    /\ boot' = "serving"
    /\ UNCHANGED <<services, fatal, sdk, chains, executor, cancels>>
    /\ UNCHANGED urlVars
    /\ UNCHANGED execVars

(***************************************************************************)
(* SummarizationAgentExecutor.execute, one coroutine per request, and the  *)
(* worker threads of the loop's default executor.                          *)
(***************************************************************************)
NoTask == [present |-> FALSE, id |-> 0]
NoContext == [message |-> [valid |-> FALSE, text |-> <<>>], current_task |-> NoTask]

\* The messages a client sends: one with a text part, and one without parts
\* (from which new_task cannot build a task).
Messages ==
    { [valid |-> TRUE,  text |-> <<"a long text">>],
      [valid |-> FALSE, text |-> <<>>] }

\* The request contexts execute may be given for request r: with or without
\* a current task (the stored task of request r has identifier r).
Contexts(r) ==
    { [message |-> m, current_task |-> t] :
        m \in Messages, t \in {NoTask, [present |-> TRUE, id |-> r]} }

\* What the completion endpoint does with one chain.predict call.
UpstreamOutcomes ==
    { [ok |-> TRUE,  text |-> <<"a summary">>],
      [ok |-> FALSE, text |-> <<"upstream", " ", "503">>] }

\* str(e) of the exception a failed publication raises
PublishError == <<"queue", " ", "closed">>

TaskEvent(id) == [kind |-> "task", state |-> "submitted", task_id |-> id, text |-> <<>>]
StatusEvent(state, id, text) ==
    [kind |-> "status", state |-> state, task_id |-> id, text |-> text]

NoLocals == [task_id |-> 0, query |-> <<>>, summary |-> <<>>, error |-> <<>>,
             failed |-> {}]
NoCall == [state |-> "none", thread |-> "none", chain |-> 0, arg |-> <<>>,
           result |-> <<>>]

\* context.get_user_input(): the message's text, "" when it has none
get_user_input(c) == c.message.text

\* new_task(context.message): a Task with a fresh identifier, or an
\* exception when the message has no parts
new_task(message, fresh) ==
    IF message.valid THEN [exc |-> "None", id |-> fresh]
    ELSE [exc |-> "ValueError", id |-> 0]

\* event_queue.enqueue_event(task), called without await: a plain function
\* enqueues the event; a coroutine function only returns a coroutine object,
\* which is dropped, and nothing is enqueued.
enqueue_unawaited(queue, ev, is_coroutine) ==
    IF is_coroutine THEN queue ELSE Append(queue, ev)

\* execute up to the construction of the TaskUpdater: the task to report
\* on, and the event queue after the creation event, if any.
get_or_create_task(c, queue, fresh, is_coroutine) ==
    IF c.current_task.present
    THEN [exc |-> "None", task_id |-> c.current_task.id, queue |-> queue,
          created |-> FALSE]
    ELSE LET task == new_task(c.message, fresh) IN
      IF task.exc # "None"
      THEN [exc |-> task.exc, task_id |-> 0, queue |-> queue, created |-> FALSE]
      ELSE [exc |-> "None", task_id |-> task.id,
            queue |-> enqueue_unawaited(queue, TaskEvent(task.id), is_coroutine),
            created |-> TRUE]

\* updater.update_status / updater.complete: the event reaches the queue,
\* or the call raises and nothing is enqueued.
publish(queue, ev, delivered) == IF delivered THEN Append(queue, ev) ELSE queue

working_update(l) ==
    StatusEvent("working", l.task_id, <<"Processing your text for summarization...">>)
completed_update(l) == StatusEvent("completed", l.task_id, l.summary)
\* An error report published under a distinct "failed" state.
error_update_failed_state(l) ==
    StatusEvent("failed", l.task_id, <<"Error during summarization: ">> \o l.error)

\* f"Error during summarization: {str(e)}"
error_update(l) ==
    StatusEvent("completed", l.task_id, <<"Error during summarization: ">> \o l.error)

\* loop.run_in_executor(None, summarize_text, self.summarization_chain, query)
\* A call made with a chain built for the request.
offload_call_new_chain(self, l) ==
    [state |-> "queued", thread |-> "pool", chain |-> self.summarization_chain + 1,
     arg |-> l.query, result |-> <<>>]

\* A call made directly on the event loop's thread, not offloaded.
offload_call_inline(self, l) ==
    [state |-> "queued", thread |-> "loop", chain |-> self.summarization_chain,
     arg |-> l.query, result |-> <<>>]

\* submits the call to the default thread pool
offload_call(self, l) ==
    [state |-> "queued", thread |-> "pool", chain |-> self.summarization_chain,
     arg |-> l.query, result |-> <<>>]

\* summarize_text(chain, text) run by a worker: chain.predict's text, or the
\* exception it raised
summarize_text(c, outcome) ==
    [c EXCEPT !.state = IF outcome.ok THEN "returned" ELSE "raised",
              !.result = outcome.text]

Running == {r \in Req : call[r].state = "running" /\ call[r].thread = "pool"}
\* The default executor starts a queued call only on an idle worker thread.
worker_available == Cardinality(Running) < MaxWorkers
\* The event loop runs a coroutine step only when its thread is not inside
\* a blocking call.
loop_free == \A r \in Req : ~(call[r].thread = "loop" /\ call[r].state \in {"queued", "running"})

\* execute, lines before the try block
ExecuteStart(r) ==
    /\ boot = "serving"
    /\ loop_free
    /\ pc[r] = "idle"
    /\ \A q \in Req : q < r => pc[q] # "idle"    \* requests are numbered as they arrive
    /\ \E c \in Contexts(r) :
         LET got == get_or_create_task(c, events[r], nextId, sdk.enqueue_event_is_coroutine) IN
         /\ ctx' = [ctx EXCEPT ![r] = c]
         /\ IF got.exc = "None"
            THEN /\ pc' = [pc EXCEPT ![r] = "working"]
                 /\ st' = [st EXCEPT ![r] = [NoLocals EXCEPT !.task_id = got.task_id,
                                                            !.query = get_user_input(c)]]
                 /\ events' = [events EXCEPT ![r] = got.queue]
                 /\ nextId' = IF got.created THEN nextId + 1 ELSE nextId
            ELSE /\ pc' = [pc EXCEPT ![r] = "raised"]
                 /\ st' = [st EXCEPT ![r] = [NoLocals EXCEPT !.query = get_user_input(c),
                                                            !.error = <<got.exc>>]]
                 /\ UNCHANGED <<events, nextId>>
    /\ UNCHANGED <<call, cancels>>
    /\ UNCHANGED bootVars
    /\ UNCHANGED urlVars

\* await updater.update_status(TaskState.working, ...)
PublishWorking(r) ==
    /\ pc[r] = "working"
    /\ loop_free
    /\ \E delivered \in BOOLEAN :
         /\ events' = [events EXCEPT ![r] = publish(@, working_update(st[r]), delivered)]
         /\ IF delivered
            THEN /\ pc' = [pc EXCEPT ![r] = "offload"]
                 /\ UNCHANGED st
            ELSE /\ pc' = [pc EXCEPT ![r] = "except"]
                 /\ st' = [st EXCEPT ![r].error = PublishError,
                                     ![r].failed = @ \cup {"working"}]
    /\ UNCHANGED <<ctx, call, nextId, cancels>>
    /\ UNCHANGED bootVars
    /\ UNCHANGED urlVars

\* loop.run_in_executor(...): the call is handed to the pool and the
\* coroutine suspends on its future
Offload(r) ==
    /\ pc[r] = "offload"
    /\ loop_free
    /\ call' = [call EXCEPT ![r] = offload_call(executor, st[r])]
    /\ pc' = [pc EXCEPT ![r] = "await"]
    /\ UNCHANGED <<ctx, st, events, nextId, cancels>>
    /\ UNCHANGED bootVars
    /\ UNCHANGED urlVars

\* A worker thread of the pool takes the call.
WorkerStart(r) ==
    /\ call[r].state = "queued"
    /\ call[r].thread = "pool" => worker_available
    /\ call' = [call EXCEPT ![r].state = "running"]
    /\ UNCHANGED <<ctx, pc, st, events, nextId, cancels>>
    /\ UNCHANGED bootVars
    /\ UNCHANGED urlVars

\* The worker's summarize_text returns or raises.
WorkerFinish(r) ==
    /\ call[r].state = "running"
    /\ \E outcome \in UpstreamOutcomes :
         call' = [call EXCEPT ![r] = summarize_text(@, outcome)]
    /\ UNCHANGED <<ctx, pc, st, events, nextId, cancels>>
    /\ UNCHANGED bootVars
    /\ UNCHANGED urlVars

\* The coroutine resumes with the future's result or exception.
Resume(r) ==
    /\ pc[r] = "await"
    /\ loop_free
    /\ call[r].state \in {"returned", "raised"}
    /\ IF call[r].state = "returned"
       THEN /\ pc' = [pc EXCEPT ![r] = "complete"]
            /\ st' = [st EXCEPT ![r].summary = call[r].result]
       ELSE /\ pc' = [pc EXCEPT ![r] = "except"]
            /\ st' = [st EXCEPT ![r].error = call[r].result]
    /\ UNCHANGED <<ctx, events, call, nextId, cancels>>
    /\ UNCHANGED bootVars
    /\ UNCHANGED urlVars

\* await updater.complete(message=summary) inside the try block
PublishCompleted(r) ==
    /\ pc[r] = "complete"
    /\ loop_free
    /\ \E delivered \in BOOLEAN :
         /\ events' = [events EXCEPT ![r] = publish(@, completed_update(st[r]), delivered)]
         /\ IF delivered
            THEN /\ pc' = [pc EXCEPT ![r] = "returned"]
                 /\ UNCHANGED st
            ELSE /\ pc' = [pc EXCEPT ![r] = "except"]
                 /\ st' = [st EXCEPT ![r].error = PublishError,
                                     ![r].failed = @ \cup {"complete"}]
    /\ UNCHANGED <<ctx, call, nextId, cancels>>
    /\ UNCHANGED bootVars
    /\ UNCHANGED urlVars

\* except Exception as e: await updater.complete(message=error text); an
\* exception raised here leaves execute.
HandleError(r) ==
    /\ pc[r] = "except"
    /\ loop_free
    /\ \E delivered \in BOOLEAN :
         /\ events' = [events EXCEPT ![r] = publish(@, error_update(st[r]), delivered)]
         /\ IF delivered
            THEN /\ pc' = [pc EXCEPT ![r] = "returned"]
                 /\ UNCHANGED st
            ELSE /\ pc' = [pc EXCEPT ![r] = "raised"]
                 /\ st' = [st EXCEPT ![r].failed = @ \cup {"except"}]
    /\ UNCHANGED <<ctx, call, nextId, cancels>>
    /\ UNCHANGED bootVars
    /\ UNCHANGED urlVars

InFlight(r) == pc[r] \in {"working", "offload", "await", "complete", "except"}

\* A cancel that ends the request's execute coroutine.
CancelInterrupts(r) ==
    /\ boot = "serving"
    /\ pc[r] # "idle"
    /\ loop_free
    /\ Len(cancels) < MaxCancels
    /\ cancels' = Append(cancels, [ret |-> "None", inflight |-> InFlight(r)])
    /\ pc' = [pc EXCEPT ![r] = IF InFlight(r) THEN "returned" ELSE @]
    /\ UNCHANGED <<ctx, st, events, call, nextId>>
    /\ UNCHANGED bootVars
    /\ UNCHANGED urlVars

\* SummarizationAgentExecutor.cancel(request r's context): logs and returns
\* None.  The model keeps, per call, the value returned and whether the
\* request's execute was in flight.
Cancel(r) ==
    /\ boot = "serving"
    /\ pc[r] # "idle"
    /\ loop_free
    /\ Len(cancels) < MaxCancels
    /\ cancels' = Append(cancels, [ret |-> "None", inflight |-> InFlight(r)])
    /\ UNCHANGED bootVars
    /\ UNCHANGED urlVars
    /\ UNCHANGED execVars

(***************************************************************************)
(* The process: start-up, then requests served concurrently.               *)
(***************************************************************************)
BootEnvirons ==
    { [A2A_BASE_URL |-> Unset, VCAP_APPLICATION |-> Unset],
      [A2A_BASE_URL |-> Unset, VCAP_APPLICATION |-> SetTo(<<Tok("["), Tok("]")>>)] }

\* The a2a SDK the process runs on.  execute awaits the TaskUpdater's
\* methods, so those are coroutines; whether EventQueue.enqueue_event is one
\* too is the SDK's choice.
SdkBuilds == {[enqueue_event_is_coroutine |-> b] : b \in BOOLEAN}

InitRest ==
    /\ boot = "main"
    /\ fatal = "None"
    /\ sdk \in SdkBuilds
    /\ base_url = NotCalled
    /\ chains = 0
    /\ executor = NoExecutor
    /\ ctx = [r \in Req |-> NoContext]
    /\ pc = [r \in Req |-> "idle"]
    /\ st = [r \in Req |-> NoLocals]
    /\ events = [r \in Req |-> <<>>]
    /\ call = [r \in Req |-> NoCall]
    /\ nextId = MaxRequests + 1
    /\ cancels = <<>>

Init ==
    /\ environ \in BootEnvirons
    /\ host = <<"0.0.0.0">>
    /\ port = 8080
    /\ services \in ServiceConfigs
    /\ InitRest

Next ==
    \/ GetBaseUrlStep
    \/ CreateExecutor
    \/ StartServer
    \/ \E r \in Req : ExecuteStart(r)
    \/ \E r \in Req : PublishWorking(r)
    \/ \E r \in Req : Offload(r)
    \/ \E r \in Req : WorkerStart(r)
    \/ \E r \in Req : WorkerFinish(r)
    \/ \E r \in Req : Resume(r)
    \/ \E r \in Req : PublishCompleted(r)
    \/ \E r \in Req : HandleError(r)
    \/ \E r \in Req : Cancel(r)

Spec == Init /\ [][Next]_vars

(***************************************************************************)
(* get_base_url alone, over a wide range of environments.                  *)
(***************************************************************************)
\* {"application_uris": <tokens>}
UrisDoc(toks) == <<Tok("{"), TStr(KeyUris), Tok(":")>> \o toks \o <<Tok("}")>>

VcapTexts ==
    { UrisDoc(<<Tok("["), TStr(Foo), Tok("]")>>),
      UrisDoc(<<Tok("["), TStr(Foo), Tok(","), TStr(Bar), Tok("]")>>),
      <<Tok("{"), TStr(KeyName), Tok(":"), TStr(<<"a">>), Tok(","), TStr(KeyUris),
        Tok(":"), Tok("["), TStr(Bar), Tok("]"), Tok("}")>>,
      <<Tok("{"), TBad(<<"not">>), TBad(<<"json">>)>>,
      <<Tok("{"), TStr(KeyUris), Tok(":"), Tok("["), TStr(Foo), Tok("]")>>,
      <<Tok("["), Tok("]")>>,
      <<Tok("null")>>,
      <<TStr(Foo)>>,
      <<Tok("{"), Tok("}")>>,
      <<Tok("{"), TStr(KeyName), Tok(":"), TStr(<<"a">>), Tok("}")>>,
      UrisDoc(<<Tok("["), Tok("]")>>),
      UrisDoc(<<Tok("null")>>),
      UrisDoc(<<TNum(<<"0">>)>>),
      UrisDoc(<<TNum(<<"5">>)>>),
      UrisDoc(<<Tok("true")>>),
      UrisDoc(<<TStr(<<"a", "b", "c">>)>>),
      UrisDoc(<<Tok("{"), TStr(KeyName), Tok(":"), TStr(<<"a">>), Tok("}")>>),
      UrisDoc(<<Tok("["), TNum(<<"5">>), Tok("]")>>) }

UrlEnvirons ==
    { [A2A_BASE_URL |-> o, VCAP_APPLICATION |-> v] :
        o \in {Unset, SetTo(<<>>), SetTo(<<"https://x.example">>)},
        v \in {Unset, SetTo(<<>>)} \cup {SetTo(t) : t \in VcapTexts} }

InitUrl ==
    /\ environ \in UrlEnvirons
    /\ host \in {<<"0.0.0.0">>, <<"localhost">>}
    /\ port \in {8080, 3000}
    /\ services \in {svc \in ServiceConfigs : svc.found /\ svc.endpoint
                                              /\ svc.config_url /\ svc.api_base}
    /\ InitRest
    /\ ~sdk.enqueue_event_is_coroutine

NextUrl == GetBaseUrlStep

SpecUrl == InitUrl /\ [][NextUrl]_vars

(***************************************************************************)
(* Properties of get_base_url (checked under SpecUrl).                     *)
(***************************************************************************)
Called == base_url.exc # "NotCalled"

\* The value application_uris has in VCAP_APPLICATION, None when the text
\* does not parse, is not an object or has no such key.
UrisOf(env) ==
    IF ~env.VCAP_APPLICATION.set THEN PyNone
    ELSE LET parsed == json_loads(env.VCAP_APPLICATION.val) IN
      IF ~parsed.ok \/ parsed.val.t # "dict" THEN PyNone
      ELSE DictLookup(parsed.val.xs, KeyUris, Len(parsed.val.xs), PyNone)

HasFirstUri(env) == UrisOf(env).t = "list" /\ UrisOf(env).xs # <<>>

\* The three rules as the claim states them.
RuleResult(env, h, p) ==
    IF env.A2A_BASE_URL.set THEN Returned(env.A2A_BASE_URL.val)
    ELSE IF HasFirstUri(env)
         THEN Returned(<<"https://">> \o py_format(UrisOf(env).xs[1]))
    ELSE Returned(default_url(h, p))

\* C4: for every combination of inputs get_base_url returns the override when
\* A2A_BASE_URL is set, else "https://" + the first application_uris entry when
\* VCAP_APPLICATION parses and has one, else "http://{host}:{port}".
C4_FirstMatchWins == Called => base_url = RuleResult(environ, host, port)

\* C5: with no override set, get_base_url never raises, and every
\* VCAP_APPLICATION without a first application_uris list entry falls
\* through to "http://{host}:{port}".
C5_NeverRaises ==
    (Called /\ ~environ.A2A_BASE_URL.set) =>
        /\ base_url.exc = "None"
        /\ ~HasFirstUri(environ) => base_url = Returned(default_url(host, port))

(***************************************************************************)
(* Properties of the process (checked under Spec).                         *)
(***************************************************************************)
IsStatus(e) == e.kind = "status"
Statuses(r) == SelectSeq(events[r], IsStatus)
StateSeq(r) == [i \in 1..Len(Statuses(r)) |-> Statuses(r)[i].state]
Finished(r) == pc[r] \in {"returned", "raised"}
Contains(text, sub) ==
    \E i \in 1..(Len(text) + 1) :
        i + Len(sub) - 1 <= Len(text) /\ SubSeq(text, i, i + Len(sub) - 1) = sub
HasCompleted(r) == \E i \in 1..Len(events[r]) : events[r][i].state = "completed"

C2_ErrorAsCompletion ==
    \A r \in Req :
        (Finished(r) /\ call[r].state = "raised") =>
            /\ \E i \in 1..Len(events[r]) :
                   /\ events[r][i].state = "completed"
                   /\ Contains(events[r][i].text, call[r].result)
            /\ \A i \in 1..Len(events[r]) : events[r][i].state # "failed"

\* C3: no failure escapes execute: whatever step fails, execute returns
\* normally, having published a completion.
C3_NothingEscapes ==
    \A r \in Req :
        /\ pc[r] # "raised"
        /\ pc[r] = "returned" => HasCompleted(r)

\* C6: when the named service is absent or its credentials have no endpoint
\* block, start-up ends with the credential lookup's error: no executor and
\* no chain is built, the server is never started and no task ever starts.
BadService == ~services.found \/ ~services.endpoint
C6_FatalConfiguration ==
    BadService =>
        /\ boot \in {"main", "base_url", "crashed"}
        /\ ~executor.made /\ chains = 0
        /\ \A r \in Req : pc[r] = "idle" /\ events[r] = <<>> /\ call[r] = NoCall
        /\ (boot = "crashed" /\ base_url.exc = "None") => fatal = "ValueError"

C6_Witness ==
    /\ services.found /\ ~services.endpoint
    /\ boot = "crashed" /\ base_url.exc = "None" /\ fatal = "ValueError"

\* C7: a cancel call returns None and changes nothing: no event, no task
\* state, no chain call and no coroutine position, so an execute in flight
\* goes on to its terminal update.
C7_CancelIsNoOp ==
    [][Len(cancels') > Len(cancels) =>
          /\ cancels'[Len(cancels')].ret = "None"
          /\ UNCHANGED <<ctx, pc, st, events, call, nextId>>
          /\ UNCHANGED <<services, boot, fatal, sdk, chains, executor>>]_vars

C7_Witness ==
    /\ \E i \in 1..Len(cancels) : cancels[i].inflight
    /\ \A r \in Req : pc[r] = "returned" /\ HasCompleted(r)

\* C8: one chain is built, when the executor is constructed; while the
\* server runs there is exactly one, the executor holds it, and every chain
\* call of every execute is made with it.
C8_OneChain ==
    /\ chains <= 1
    /\ executor.made <=> chains = 1
    /\ executor.made => executor.summarization_chain = 1
    /\ boot \in {"executor", "serving"} => executor.made
    /\ \A r \in Req : call[r].state # "none" =>
           /\ executor.made
           /\ call[r].chain = executor.summarization_chain

C8_Witness ==
    \E a, b \in Req :
        /\ a # b
        /\ call[a].state = "running" /\ call[b].state = "running"
        /\ call[a].chain = 1 /\ call[b].chain = 1

\* C9: without a current task execute creates one and publishes its creation
\* first, and every status update carries the new identifier; with a current
\* task it publishes no creation event and every update carries the existing
\* identifier.
Entered(r) == pc[r] # "idle" /\ ~(pc[r] = "raised" /\ st[r].failed = {})
C9_GetOrCreate ==
    \A r \in Req : Entered(r) =>
        IF ctx[r].current_task.present
        THEN /\ st[r].task_id = ctx[r].current_task.id
             /\ \A i \in 1..Len(events[r]) :
                    /\ events[r][i].kind = "status"
                    /\ events[r][i].task_id = ctx[r].current_task.id
        ELSE /\ events[r] # <<>>
             /\ events[r][1] = TaskEvent(st[r].task_id)
             /\ st[r].task_id \notin Req
             /\ \A q \in Req \ {r} : Entered(q) => st[q].task_id # st[r].task_id
             /\ \A i \in 2..Len(events[r]) :
                    /\ events[r][i].kind = "status"
                    /\ events[r][i].task_id = st[r].task_id

\* A completed update is published only once the request's own chain call,
\* if it made one, has finished.
TerminalAfterCall ==
    \A r \in Req :
        HasCompleted(r) =>
            \/ call[r].state \in {"returned", "raised"}
            \/ call[r].state = "none" /\ "working" \in st[r].failed

\* The coroutine of request r can take its next step.
CanStep(r) ==
    /\ pc[r] = "working"  => ENABLED PublishWorking(r)
    /\ pc[r] = "offload"  => ENABLED Offload(r)
    /\ pc[r] = "complete" => ENABLED PublishCompleted(r)
    /\ pc[r] = "except"   => ENABLED HandleError(r)
    /\ (pc[r] = "await" /\ call[r].state \in {"returned", "raised"}) => ENABLED Resume(r)

\* C10: whatever the number of chain calls in flight, every other execute
\* can take its steps, a submitted chain call can run, and a terminal update
\* follows the request's own chain call.
C10_NeverBlocked ==
    /\ \A r \in Req : CanStep(r)
    /\ \A r \in Req : call[r].state = "queued" => ENABLED WorkerStart(r)
    /\ TerminalAfterCall

\* C10 as amended: the event loop is never blocked by a chain call, so every
\* execute can publish its updates while other calls are in flight; a
\* submitted chain call can run as long as fewer calls are running than the
\* default executor has worker threads (beyond that it waits in the
\* executor's queue); a terminal update follows the request's own chain call.
C10_Amended ==
    /\ \A r \in Req : CanStep(r)
    /\ \A r \in Req :
           (call[r].state = "queued" /\ Cardinality(Running) < MaxWorkers) =>
               ENABLED WorkerStart(r)
    /\ TerminalAfterCall

C10_Witness ==
    \E a, b \in Req :
        /\ a # b
        /\ call[a].state = "running" /\ pc[a] = "await"
        /\ call[b].state = "returned" /\ pc[b] = "returned"
        /\ StateSeq(b) = <<"working", "completed">>

====
